---- MODULE Spec2Model ----
(***************************************************************************)
(* Model of .github/scripts/combine-pr.py: the script that merges the      *)
(* stale-PR reports in outputs/*.json, ranks them by daysStale, truncates  *)
(* the ranking to a limit, formats one line per kept record and appends    *)
(* the result to the step summary and to the step outputs.                 *)
(*                                                                         *)
(* Text is a sequence of chunks.  A chunk is a string that holds no line   *)
(* break, no double quote and no backslash; each of those three characters *)
(* is always a chunk of its own (NL, QUOTE, BSL).  A command-line argument *)
(* is a sequence of single characters, because int() reads it character by *)
(* character.                                                              *)
(***************************************************************************)
EXTENDS Integers, Sequences, FiniteSets, TLC

VARIABLES
    argv,            \* sys.argv[1:], each argument a sequence of characters
    environ,         \* the names defined in os.environ
    outputs,         \* the files of outputs/*.json, in the order glob yields them
    output_sink,     \* content of the file GITHUB_OUTPUT points to
    summary_sink,    \* content of the file GITHUB_STEP_SUMMARY points to
    pc,              \* position of the script
    limit,
    f,               \* index of the next file the reading loop opens
    result,
    sorted_data,
    count,
    sliced_list,
    formated_list,
    message,
    error,           \* the uncaught exception, "" when there is none
    exitcode,        \* the exit status once pc is "done" or "failed"
    raised_at,       \* the position the uncaught exception was raised at
    output_start,    \* output_sink when this process started
    summary_start,   \* summary_sink when this process started
    exits            \* exit statuses of the earlier processes, oldest first

vars == <<argv, environ, outputs, output_sink, summary_sink, pc, limit, f,
          result, sorted_data, count, sliced_list, formated_list, message,
          error, exitcode, raised_at, output_start, summary_start, exits>>

----------------------------------------------------------------------------
(* Bounds of the model *)

MaxRecords == 3      \* records in all input files together
MaxRuns == 2         \* processes run one after the other (SpecRerun)

(* Program constant *)
DefaultLimit == 999

----------------------------------------------------------------------------
(* Text *)

NL == "\n"
QUOTE == "\""
BSL == "\\"

SeqsUpTo(S, n) == UNION {[1..k -> S] : k \in 0..n}

Reverse(s) == [i \in 1..Len(s) |-> s[Len(s) + 1 - i]]

IsPrefix(s, t) == Len(s) <= Len(t) /\ SubSeq(t, 1, Len(s)) = s

\* str(n) of an integer, as the f-strings render it
Str(n) == <<ToString(n)>>

\* print(value, file=fh)
PrintLine(value) == value \o <<NL>>

RECURSIVE PrintLines(_)
PrintLines(lines) ==
    IF lines = <<>> THEN <<>>
    ELSE PrintLine(Head(lines)) \o PrintLines(Tail(lines))

\* sep.join(lines)
RECURSIVE JoinWith(_, _)
JoinWith(sep, lines) ==
    IF lines = <<>> THEN <<>>
    ELSE IF Len(lines) = 1 THEN Head(lines)
    ELSE Head(lines) \o sep \o JoinWith(sep, Tail(lines))

\* the j-th smallest number of a set of numbers
NthOf(S, j) == CHOOSE e \in S : Cardinality({x \in S : x < e}) = j - 1

\* The lines of a text file: the pieces its line breaks end, and what follows
\* the last line break if anything does.
LineEnds(text) ==
    {k \in DOMAIN text : text[k] = NL}
        \cup (IF text # <<>> /\ text[Len(text)] # NL THEN {Len(text) + 1} ELSE {})

FileLines(text) ==
    LET ends == LineEnds(text)
    IN  [j \in 1..Cardinality(ends) |->
            SubSeq(text, (IF j = 1 THEN 0 ELSE NthOf(ends, j - 1)) + 1, NthOf(ends, j) - 1)]

----------------------------------------------------------------------------
(* The command line *)

DigitChars == <<"0", "1", "2", "3", "4", "5", "6", "7", "8", "9">>

IsDigit(c) == \E d \in DOMAIN DigitChars : DigitChars[d] = c

DigitVal(c) == (CHOOSE d \in DOMAIN DigitChars : DigitChars[d] = c) - 1

RECURSIVE DigitsVal(_)
DigitsVal(chars) ==
    IF chars = <<>> THEN 0
    ELSE DigitsVal(SubSeq(chars, 1, Len(chars) - 1)) * 10 + DigitVal(chars[Len(chars)])

AllDigits(chars) == chars # <<>> /\ \A k \in DOMAIN chars : IsDigit(chars[k])

\* int(s) accepts an optional sign followed by decimal digits
IntParses(chars) ==
    IF chars # <<>> /\ Head(chars) \in {"-", "+"} THEN AllDigits(Tail(chars))
    ELSE AllDigits(chars)

\* int(s) where IntParses(s); anything else raises ValueError
IntOf(chars) ==
    IF Head(chars) = "-" THEN 0 - DigitsVal(Tail(chars))
    ELSE IF Head(chars) = "+" THEN DigitsVal(Tail(chars))
    ELSE DigitsVal(chars)

----------------------------------------------------------------------------
(* Records and the ranking *)

HasKey(data, key) == key \in DOMAIN data

\* bisect-right insertion: x goes after every element whose key is <= its own
RECURSIVE InsertByDaysStale(_, _)
InsertByDaysStale(x, s) ==
    IF s = <<>> THEN <<x>>
    ELSE IF Head(s).daysStale <= x.daysStale
         THEN <<Head(s)>> \o InsertByDaysStale(x, Tail(s))
         ELSE <<x>> \o s

\* sorted(result, key=lambda x: x['daysStale']): ascending and stable
RECURSIVE Sorted(_)
Sorted(s) ==
    IF s = <<>> THEN <<>>
    ELSE InsertByDaysStale(s[Len(s)], Sorted(SubSeq(s, 1, Len(s) - 1)))

\* sorted(..., reverse=True): descending, ties in merge order
RankStableDescending(s) == Reverse(Sorted(Reverse(s)))

\* sorted(...) followed by .reverse()
Rank(s) == Reverse(Sorted(s))

\* s[:n + 1]
SliceOneMore(s, n) ==
    IF n + 1 >= 0 THEN SubSeq(s, 1, IF n + 1 < Len(s) THEN n + 1 ELSE Len(s))
    ELSE SubSeq(s, 1, IF Len(s) + n + 1 > 0 THEN Len(s) + n + 1 ELSE 0)

\* s[:n], with Python's reading of a negative bound
Slice(s, n) ==
    IF n >= 0 THEN SubSeq(s, 1, IF n < Len(s) THEN n ELSE Len(s))
    ELSE SubSeq(s, 1, IF Len(s) + n > 0 THEN Len(s) + n ELSE 0)

\* the length of what is kept
CountKept(data) == Len(Slice(data, limit))

\* len(sorted_data)
Count(data) == Len(data)

\* the key function raises KeyError on a record without daysStale
RankRaises(s) == \E k \in DOMAIN s : ~HasKey(s[k], "daysStale")

----------------------------------------------------------------------------
(* Formatting and the sinks *)

\* the template numbered with enumerate's index itself
FormatLineZeroBased(i, data) ==
    <<" ">> \o Str(i) \o <<". [">> \o data.title \o <<"](">> \o data.url
        \o <<") | ">> \o Str(data.daysStale) \o <<" days with no reviews">>

\* the template of the formatting loop; i is enumerate's index
FormatLine(i, data) ==
    <<" ">> \o Str(i + 1) \o <<". [">> \o data.title \o <<"](">> \o data.url
        \o <<") | ">> \o Str(data.daysStale) \o <<" days with no reviews">>

FormatRaises(data) ==
    ~HasKey(data, "title") \/ ~HasKey(data, "url") \/ ~HasKey(data, "daysStale")

\* what set_output appends to the output sink
set_output(name, value) == PrintLine(<<name, "=">> \o value)

\* what set_multiline_output appends to the output sink
set_multiline_output(name, value, delimiter) ==
    PrintLine(<<name, "<<", delimiter>>) \o PrintLine(value) \o PrintLine(<<delimiter>>)

\* what the summary block appends to the summary sink
Heading(n) == <<"## There are ">> \o Str(n) \o <<" stale PRs">>

SummaryBlock(n, lines) == PrintLine(Heading(n)) \o PrintLines(lines)

\* an escaping that leaves double quotes as they are
RECURSIVE JsonEscapeKeepsQuote(_)
JsonEscapeKeepsQuote(text) ==
    IF text = <<>> THEN <<>>
    ELSE (IF Head(text) = BSL THEN <<BSL, BSL>>
          ELSE IF Head(text) = NL THEN <<BSL, "n">>
          ELSE <<Head(text)>>) \o JsonEscapeKeepsQuote(Tail(text))

\* json.dumps of one string's content
RECURSIVE JsonEscape(_)
JsonEscape(text) ==
    IF text = <<>> THEN <<>>
    ELSE (IF Head(text) = QUOTE THEN <<BSL, QUOTE>>
          ELSE IF Head(text) = BSL THEN <<BSL, BSL>>
          ELSE IF Head(text) = NL THEN <<BSL, "n">>
          ELSE <<Head(text)>>) \o JsonEscape(Tail(text))

JsonString(text) == <<QUOTE>> \o JsonEscape(text) \o <<QUOTE>>

\* json.dumps of a list of strings
JsonDumps(lines) ==
    <<"[">> \o JoinWith(<<", ">>, [k \in DOMAIN lines |-> JsonString(lines[k])]) \o <<"]">>

----------------------------------------------------------------------------
(* The inputs a run can meet *)

\* what the upstream step can put into a report
Records ==
    { [title |-> <<"B", QUOTE, "b", QUOTE>>, url |-> <<"u2">>, daysStale |-> 10],
      [title |-> <<"D", NL, "E">>, url |-> <<"u4">>, daysStale |-> 5],
      [title |-> <<"G">>, daysStale |-> 5],
      [url |-> <<"u5">>, daysStale |-> 1],
      [title |-> <<"F">>, url |-> <<"u6">>] }

\* the records every key of which is present and whose texts are one line each
PlainRecords ==
    { [title |-> <<"A">>, url |-> <<"u1">>, daysStale |-> 5],
      [title |-> <<"B">>, url |-> <<"u2">>, daysStale |-> 10] }

\* a file json.load cannot parse
Malformed == [valid |-> FALSE, value |-> <<>>]

\* a file that holds the JSON array s
File(s) == [valid |-> TRUE, value |-> s]

Contents(recs) == {Malformed} \cup {File(s) : s \in SeqsUpTo(recs, MaxRecords)}

RECURSIVE TotalRecords(_)
TotalRecords(files) ==
    IF files = <<>> THEN 0 ELSE Len(Head(files).value) + TotalRecords(Tail(files))

\* the directories outputs/ can be: no file, one file, or two files, of at most
\* MaxRecords records together
Dirs(recs) ==
    {<<>>}
        \cup {<<c>> : c \in Contents(recs)}
        \cup UNION { {<<File(SubSeq(s, 1, k)), File(SubSeq(s, k + 1, Len(s)))>> : k \in 0..Len(s)} :
                       s \in SeqsUpTo(recs, MaxRecords) }
        \cup {<<Malformed, c>> : c \in Contents(recs)}
        \cup {<<c, Malformed>> : c \in Contents(recs)}

\* sys.argv[1:]: no argument, or one
Args == { <<>>, << <<"2">> >>, << <<"0">> >>, << <<"-", "1">> >>, << <<"x">> >> }

EnvNames == {"GITHUB_OUTPUT", "GITHUB_STEP_SUMMARY"}

\* what earlier steps of the job left in a sink
Earlier == <<"earlier step", NL>>

Prior == { <<>>, Earlier }

\* uuid.uuid1() of a call
Delimiters == {"uuid-1", "uuid-2"}

Orders(files) ==
    { [k \in DOMAIN files |-> files[p[k]]] : p \in Permutations(DOMAIN files) }

----------------------------------------------------------------------------
(* The script *)

Start ==
    /\ pc = "args"
    /\ limit = 0
    /\ f = 1
    /\ result = <<>>
    /\ sorted_data = <<>>
    /\ count = 0
    /\ sliced_list = <<>>
    /\ formated_list = <<>>
    /\ message = <<>>
    /\ error = ""
    /\ exitcode = 0
    /\ raised_at = ""

Init ==
    /\ argv \in Args
    /\ environ \in SUBSET EnvNames
    /\ outputs \in Dirs(Records)
    /\ output_sink = Earlier
    /\ summary_sink = Earlier
    /\ output_start = output_sink
    /\ summary_start = summary_sink
    /\ exits = <<>>
    /\ Start

Raise(e) ==
    /\ pc' = "failed"
    /\ error' = e
    /\ exitcode' = 1
    /\ raised_at' = pc

\* the argument read under try/except ValueError, falling back to the default
ParseArgsDefaultOnInvalid ==
    /\ pc = "args"
    /\ limit' = IF Len(argv) > 0 /\ IntParses(argv[1]) THEN IntOf(argv[1]) ELSE DefaultLimit
    /\ pc' = "read"
    /\ UNCHANGED <<argv, environ, outputs, output_sink, summary_sink, f, result,
                   sorted_data, count, sliced_list, formated_list, message,
                   error, exitcode, raised_at, output_start, summary_start, exits>>

\* lines 33-36
ParseArgs ==
    /\ pc = "args"
    /\ IF Len(argv) > 0
       THEN IF IntParses(argv[1])
            THEN limit' = IntOf(argv[1]) /\ pc' = "read" /\ UNCHANGED <<error, exitcode, raised_at>>
            ELSE Raise("ValueError") /\ UNCHANGED limit
       ELSE limit' = DefaultLimit /\ pc' = "read" /\ UNCHANGED <<error, exitcode, raised_at>>
    /\ UNCHANGED <<argv, environ, outputs, output_sink, summary_sink, f, result,
                   sorted_data, count, sliced_list, formated_list, message,
                   output_start, summary_start, exits>>

\* lines 40-42, one file
ReadFile ==
    /\ pc = "read"
    /\ f <= Len(outputs)
    /\ IF outputs[f].valid
       THEN result' = result \o outputs[f].value /\ f' = f + 1
            /\ UNCHANGED <<pc, error, exitcode, raised_at>>
       ELSE Raise("JSONDecodeError") /\ UNCHANGED <<result, f>>
    /\ UNCHANGED <<argv, environ, outputs, output_sink, summary_sink, limit,
                   sorted_data, count, sliced_list, formated_list, message,
                   output_start, summary_start, exits>>

\* lines 45-49
SortAndCount ==
    /\ pc = "read"
    /\ f > Len(outputs)
    /\ IF RankRaises(result)
       THEN Raise("KeyError") /\ UNCHANGED <<sorted_data, count>>
       ELSE /\ sorted_data' = Rank(result)
            /\ count' = Count(Rank(result))
            /\ pc' = "count"
            /\ UNCHANGED <<error, exitcode, raised_at>>
    /\ UNCHANGED <<argv, environ, outputs, output_sink, summary_sink, limit, f,
                   result, sliced_list, formated_list, message,
                   output_start, summary_start, exits>>

\* line 51
WriteCount ==
    /\ pc = "count"
    /\ IF "GITHUB_OUTPUT" \in environ
       THEN /\ output_sink' = output_sink \o set_output("COUNT", Str(count))
            /\ pc' = "check"
            /\ UNCHANGED <<error, exitcode, raised_at>>
       ELSE Raise("KeyError") /\ UNCHANGED output_sink
    /\ UNCHANGED <<argv, environ, outputs, summary_sink, limit, f, result,
                   sorted_data, count, sliced_list, formated_list, message,
                   output_start, summary_start, exits>>

\* an early exit that appends no MESSAGE
EarlyExitWithoutMessage ==
    /\ pc = "check"
    /\ count < 1
    /\ pc' = "done"
    /\ exitcode' = 0
    /\ UNCHANGED <<argv, environ, outputs, output_sink, summary_sink, limit, f,
                   result, sorted_data, count, sliced_list, formated_list, message,
                   error, raised_at, output_start, summary_start, exits>>

\* lines 54-56
EarlyExit ==
    /\ pc = "check"
    /\ count < 1
    /\ IF "GITHUB_OUTPUT" \in environ
       THEN /\ output_sink' = output_sink \o set_output("MESSAGE", <<>>)
            /\ pc' = "done"
            /\ exitcode' = 0
            /\ UNCHANGED <<error, raised_at>>
       ELSE Raise("KeyError") /\ UNCHANGED output_sink
    /\ UNCHANGED <<argv, environ, outputs, summary_sink, limit, f, result,
                   sorted_data, count, sliced_list, formated_list, message,
                   output_start, summary_start, exits>>

\* line 59
Truncate ==
    /\ pc = "check"
    /\ ~(count < 1)
    /\ sliced_list' = Slice(sorted_data, limit)
    /\ pc' = "format"
    /\ UNCHANGED <<argv, environ, outputs, output_sink, summary_sink, limit, f,
                   result, sorted_data, count, formated_list, message, error,
                   exitcode, raised_at, output_start, summary_start, exits>>

\* a loop that formats a record without title or url as an empty line
FormatRecordSkipsDefective ==
    /\ pc = "format"
    /\ Len(formated_list) < Len(sliced_list)
    /\ LET i == Len(formated_list)
           data == sliced_list[i + 1]
       IN  formated_list' = Append(formated_list,
                                   IF FormatRaises(data) THEN <<>> ELSE FormatLine(i, data))
    /\ UNCHANGED <<argv, environ, outputs, output_sink, summary_sink, limit, f,
                   result, sorted_data, count, sliced_list, message, pc, error,
                   exitcode, raised_at, output_start, summary_start, exits>>

\* a loop that prints each line to the summary sink as soon as it is formatted
FormatRecordStreaming ==
    /\ pc = "format"
    /\ Len(formated_list) < Len(sliced_list)
    /\ LET i == Len(formated_list)
           data == sliced_list[i + 1]
       IN  IF FormatRaises(data)
           THEN Raise("KeyError") /\ UNCHANGED <<formated_list, summary_sink>>
           ELSE /\ formated_list' = Append(formated_list, FormatLine(i, data))
                /\ summary_sink' = summary_sink \o PrintLine(FormatLine(i, data))
                /\ UNCHANGED <<pc, error, exitcode, raised_at>>
    /\ UNCHANGED <<argv, environ, outputs, output_sink, limit, f,
                   result, sorted_data, count, sliced_list, message,
                   output_start, summary_start, exits>>

\* lines 63-67, one record
FormatRecord ==
    /\ pc = "format"
    /\ Len(formated_list) < Len(sliced_list)
    /\ LET i == Len(formated_list)
           data == sliced_list[i + 1]
       IN  IF FormatRaises(data)
           THEN Raise("KeyError") /\ UNCHANGED formated_list
           ELSE /\ formated_list' = Append(formated_list, FormatLine(i, data))
                /\ UNCHANGED <<pc, error, exitcode, raised_at>>
    /\ UNCHANGED <<argv, environ, outputs, output_sink, summary_sink, limit, f,
                   result, sorted_data, count, sliced_list, message,
                   output_start, summary_start, exits>>

\* the summary file opened with mode 'w'
WriteSummaryTruncating ==
    /\ pc = "format"
    /\ Len(formated_list) = Len(sliced_list)
    /\ IF "GITHUB_STEP_SUMMARY" \in environ
       THEN /\ summary_sink' = SummaryBlock(count, formated_list)
            /\ pc' = "message"
            /\ UNCHANGED <<error, exitcode, raised_at>>
       ELSE Raise("KeyError") /\ UNCHANGED summary_sink
    /\ UNCHANGED <<argv, environ, outputs, output_sink, limit, f, result,
                   sorted_data, count, sliced_list, formated_list, message,
                   output_start, summary_start, exits>>

\* lines 70-73
WriteSummary ==
    /\ pc = "format"
    /\ Len(formated_list) = Len(sliced_list)
    /\ IF "GITHUB_STEP_SUMMARY" \in environ
       THEN /\ summary_sink' = summary_sink \o SummaryBlock(count, formated_list)
            /\ pc' = "message"
            /\ UNCHANGED <<error, exitcode, raised_at>>
       ELSE Raise("KeyError") /\ UNCHANGED summary_sink
    /\ UNCHANGED <<argv, environ, outputs, output_sink, limit, f, result,
                   sorted_data, count, sliced_list, formated_list, message,
                   output_start, summary_start, exits>>

\* lines 76-78
WriteMessage ==
    /\ pc = "message"
    /\ message' = JoinWith(<<NL>>, formated_list)
    /\ IF "GITHUB_OUTPUT" \in environ
       THEN /\ \E delimiter \in Delimiters :
                 output_sink' = output_sink
                     \o set_multiline_output("MESSAGE", message', delimiter)
            /\ pc' = "data"
            /\ UNCHANGED <<error, exitcode, raised_at>>
       ELSE Raise("KeyError") /\ UNCHANGED output_sink
    /\ UNCHANGED <<argv, environ, outputs, summary_sink, limit, f, result,
                   sorted_data, count, sliced_list, formated_list,
                   output_start, summary_start, exits>>

\* line 80, and the end of the script
WriteData ==
    /\ pc = "data"
    /\ IF "GITHUB_OUTPUT" \in environ
       THEN /\ output_sink' = output_sink \o set_output("data", JsonDumps(formated_list))
            /\ pc' = "done"
            /\ exitcode' = 0
            /\ UNCHANGED <<error, raised_at>>
       ELSE Raise("KeyError") /\ UNCHANGED output_sink
    /\ UNCHANGED <<argv, environ, outputs, summary_sink, limit, f, result,
                   sorted_data, count, sliced_list, formated_list, message,
                   output_start, summary_start, exits>>

Next ==
    \/ ParseArgs
    \/ ReadFile
    \/ SortAndCount
    \/ WriteCount
    \/ EarlyExit
    \/ Truncate
    \/ FormatRecord
    \/ WriteSummary
    \/ WriteMessage
    \/ WriteData

Spec == Init /\ [][Next]_vars

Finished == pc \in {"done", "failed"}

----------------------------------------------------------------------------
(* The script run again by the same job: same command line, same environment, *)
(* same files, the sinks as the earlier runs left them.                       *)

InitRerun ==
    /\ argv \in Args
    /\ environ \in SUBSET EnvNames
    /\ outputs \in Dirs(PlainRecords)
    /\ \E p \in Prior : output_sink = p /\ summary_sink = p
    /\ output_start = output_sink
    /\ summary_start = summary_sink
    /\ exits = <<>>
    /\ Start

Rerun ==
    /\ Finished
    /\ Len(exits) + 1 < MaxRuns
    /\ exits' = Append(exits, exitcode)
    /\ outputs' \in Orders(outputs)
    /\ output_start' = output_sink
    /\ summary_start' = summary_sink
    /\ pc' = "args"
    /\ limit' = 0
    /\ f' = 1
    /\ result' = <<>>
    /\ sorted_data' = <<>>
    /\ count' = 0
    /\ sliced_list' = <<>>
    /\ formated_list' = <<>>
    /\ message' = <<>>
    /\ error' = ""
    /\ exitcode' = 0
    /\ raised_at' = ""
    /\ UNCHANGED <<argv, environ, output_sink, summary_sink>>

NextRerun ==
    \/ Next
    \/ Rerun

SpecRerun == InitRerun /\ [][NextRerun]_vars

----------------------------------------------------------------------------
(* What the claims speak of *)

\* the script is past the reading and ranking of its inputs
Ranked ==
    \/ pc \in {"count", "check", "format", "message", "data", "done"}
    \/ pc = "failed" /\ raised_at \notin {"args", "read"}

\* the script has appended COUNT
Counted ==
    \/ pc \in {"check", "format", "message", "data", "done"}
    \/ pc = "failed" /\ raised_at \notin {"args", "read", "count"}

\* the script is past the formatting loop
Formatted == pc \in {"message", "data", "done"} /\ count >= 1

\* what this process has appended to a sink
Appended(sink, start) == SubSeq(sink, Len(start) + 1, Len(sink))

Min(a, b) == IF a < b THEN a ELSE b

Max(a, b) == IF a > b THEN a ELSE b

----------------------------------------------------------------------------
\* C1: the COUNT line the run appends carries the number of records of all
\* input files together, whatever the limit is (and so whatever was truncated).
C1_CountIsTotal ==
    Counted =>
        IsPrefix(output_start \o <<"COUNT", "=", ToString(TotalRecords(outputs)), NL>>,
                 output_sink)

\* three records, limit 2: two kept, COUNT=3
C1_Witness ==
    /\ pc = "done"
    /\ limit = 2
    /\ TotalRecords(outputs) = 3
    /\ Len(sliced_list) = 2
    /\ IsPrefix(output_start \o <<"COUNT", "=", "3", NL>>, output_sink)

----------------------------------------------------------------------------
\* C2 as claimed: whenever the merged sequence is empty, the run ends with exit
\* status 0, having appended COUNT=0 and an empty MESSAGE and nothing else.
C2_Original ==
    (Finished /\ raised_at # "args" /\ f > Len(outputs) /\ result = <<>>) =>
        /\ pc = "done"
        /\ exitcode = 0
        /\ output_sink = output_start \o <<"COUNT", "=", "0", NL, "MESSAGE", "=", NL>>
        /\ summary_sink = summary_start

\* C2 (amended): when the merged sequence is empty and GITHUB_OUTPUT is set, the
\* run ends with exit status 0, having appended exactly COUNT=0 and an empty
\* MESSAGE to the output sink, no data output, and nothing to the summary sink.
C2_EmptyRun ==
    (Finished /\ raised_at # "args" /\ f > Len(outputs) /\ result = <<>>
              /\ "GITHUB_OUTPUT" \in environ) =>
        /\ pc = "done"
        /\ exitcode = 0
        /\ output_sink = output_start \o <<"COUNT", "=", "0", NL, "MESSAGE", "=", NL>>
        /\ summary_sink = summary_start

\* no file matches outputs/*.json and the run has ended
C2_Witness ==
    /\ pc = "done"
    /\ outputs = <<>>
    /\ "GITHUB_OUTPUT" \in environ
    /\ output_sink = output_start \o <<"COUNT", "=", "0", NL, "MESSAGE", "=", NL>>

----------------------------------------------------------------------------
\* C3: the ranked sequence is a permutation of the merged one, daysStale never
\* increases along it, and of two records with the same daysStale the one merged
\* later comes first.
C3_RankIsReversedStableSort ==
    (Ranked /\ pc # "failed") =>
        \E p \in Permutations(DOMAIN result) :
            /\ \A k \in DOMAIN result : sorted_data[k] = result[p[k]]
            /\ \A k, m \in DOMAIN result :
                  k < m =>
                    /\ sorted_data[k].daysStale >= sorted_data[m].daysStale
                    /\ sorted_data[k].daysStale = sorted_data[m].daysStale => p[k] > p[m]

\* two different records tie and the ranking put the later one first
C3_Witness ==
    /\ pc = "done"
    /\ Len(result) = 3
    /\ result[1].daysStale = result[2].daysStale
    /\ result[1] # result[2]
    /\ \E k \in 1..2 : sorted_data[k] = result[2] /\ sorted_data[k + 1] = result[1]

----------------------------------------------------------------------------
\* C4 as claimed: for every limit int() accepts, negative ones included, the kept
\* sequence is a prefix of the ranked one, of length min(COUNT, limit), and there
\* are as many formatted lines.
C4_Original ==
    (pc \in {"format", "message", "data", "done"} /\ count >= 1) =>
        /\ IsPrefix(sliced_list, sorted_data)
        /\ Len(sliced_list) = Min(count, limit)
        /\ Formatted => Len(formated_list) = Min(count, limit)

\* C4 (amended): the kept sequence is a prefix of the ranked one; its length, and
\* the number of formatted lines, is min(COUNT, limit) when limit >= 0 and
\* max(0, COUNT + limit) when limit is negative.
C4_KeptLength ==
    (pc \in {"format", "message", "data", "done"} /\ count >= 1) =>
        LET n == IF limit >= 0 THEN Min(count, limit) ELSE Max(0, count + limit)
        IN  /\ IsPrefix(sliced_list, sorted_data)
            /\ Len(sliced_list) = n
            /\ Formatted => Len(formated_list) = n

\* limit -1 on three records keeps two
C4_Witness ==
    /\ pc = "done"
    /\ limit = 0 - 1
    /\ count = 3
    /\ Len(sliced_list) = 2
    /\ Len(formated_list) = 2

----------------------------------------------------------------------------
----------------------------------------------------------------------------
AllInput == UNION { {outputs[k].value[m] : m \in DOMAIN outputs[k].value} : k \in DOMAIN outputs }

Defective(data) == ~HasKey(data, "daysStale") \/ ~HasKey(data, "title") \/ ~HasKey(data, "url")

\* C6 as claimed: a record without daysStale, title or url anywhere in the input
\* keeps the run from completing.
C6_Original ==
    (\E data \in AllInput : Defective(data)) => pc # "done"

\* C6 (amended): a run completes only if every record of the input has daysStale
\* and every kept record has title and url; a record past the truncation limit
\* that lacks title or url does not stop it.
C6_DefectiveRecord ==
    pc = "done" =>
        /\ \A data \in AllInput : HasKey(data, "daysStale")
        /\ \A k \in 1..(IF limit >= 0 THEN Min(count, limit) ELSE Max(0, count + limit)) :
              HasKey(sorted_data[k], "title") /\ HasKey(sorted_data[k], "url")

\* a record without title was ranked past the limit and the run completed
C6_Witness ==
    /\ pc = "done"
    /\ count = 3
    /\ limit = 2
    /\ ~HasKey(sorted_data[3], "title")

----------------------------------------------------------------------------
\* the line of the record at 1-based position k of the kept sequence
ExpectedLine(k, data) ==
    <<" ", ToString(k), ". [">> \o data.title \o <<"](">> \o data.url
        \o <<") | ", ToString(data.daysStale), " days with no reviews">>

\* C7: line k is built from kept record k and numbered k, there is one line per
\* kept record, and MESSAGE is the lines joined by line breaks, in that order.
C7_FormattedLines ==
    Formatted =>
        /\ Len(formated_list) = Len(sliced_list)
        /\ \A k \in DOMAIN formated_list :
              formated_list[k] = ExpectedLine(k, sliced_list[k])
        /\ pc \in {"data", "done"} =>
              \E d \in Delimiters :
                  IsPrefix(output_start \o <<"COUNT", "=", ToString(count), NL>>
                             \o <<"MESSAGE", "<<", d, NL>>
                             \o JoinWith(<<NL>>, [k \in DOMAIN sliced_list |->
                                                    ExpectedLine(k, sliced_list[k])])
                             \o <<NL, d, NL>>,
                           output_sink)

\* two lines, the staler record first
C7_Witness ==
    /\ pc = "done"
    /\ Len(formated_list) = 2
    /\ formated_list[1] = <<" ", "1", ". [", "B", QUOTE, "b", QUOTE, "](", "u2", ") | ", "10",
                            " days with no reviews">>
    /\ formated_list[2] = <<" ", "2", ". [", "D", NL, "E", "](", "u4", ") | ", "5",
                            " days with no reviews">>

----------------------------------------------------------------------------
(* Reading the sinks back *)

JsonError == [ok |-> FALSE, value |-> <<>>]

\* chunk k of a JSON text follows an odd run of backslashes: it is an escape code
JsonEscaped(text, k) ==
    LET others == {j \in 1..(k - 1) : text[j] # BSL}
        run == k - 1 - (IF others = {} THEN 0 ELSE NthOf(others, Cardinality(others)))
    IN  run % 2 = 1

\* the content of a JSON string, given the chunks between its quotes
JsonStringOk(body) ==
    \A k \in DOMAIN body :
        /\ body[k] # NL
        /\ JsonEscaped(body, k) => body[k] \in {QUOTE, BSL, "n"}
        /\ (k = Len(body) /\ body[k] = BSL) => JsonEscaped(body, k)

JsonStringValue(body) ==
    LET kept == {k \in DOMAIN body : ~(body[k] = BSL /\ ~JsonEscaped(body, k))}
    IN  [j \in 1..Cardinality(kept) |->
            LET k == NthOf(kept, j)
            IN  IF JsonEscaped(body, k) /\ body[k] = "n" THEN NL ELSE body[k]]

\* json.loads of a text that is to be an array of strings
JsonLoads(text) ==
    LET quotes == {k \in DOMAIN text : text[k] = QUOTE /\ ~JsonEscaped(text, k)}
        n == Cardinality(quotes) \div 2
        open(j) == NthOf(quotes, 2 * j - 1)
        close(j) == NthOf(quotes, 2 * j)
        body(j) == SubSeq(text, open(j) + 1, close(j) - 1)
    IN  IF text = <<"[", "]">> THEN [ok |-> TRUE, value |-> <<>>]
        ELSE IF /\ Len(text) >= 4
                /\ text[1] = "["
                /\ text[Len(text)] = "]"
                /\ Cardinality(quotes) = 2 * n
                /\ n >= 1
                /\ open(1) = 2
                /\ close(n) = Len(text) - 1
                /\ \A j \in 1..(n - 1) :
                      open(j + 1) = close(j) + 2 /\ text[close(j) + 1] = ", "
                /\ \A j \in 1..n : JsonStringOk(body(j))
             THEN [ok |-> TRUE, value |-> [j \in 1..n |-> JsonStringValue(body(j))]]
             ELSE JsonError

\* the value of the data output: what follows "data=" on the last line of the sink
DataOutput ==
    LET lines == FileLines(output_sink)
        last == lines[Len(lines)]
    IN  SubSeq(last, 3, Len(last))

\* the lines this run appended to the summary sink after its heading line
SummaryLines == Tail(FileLines(Appended(summary_sink, summary_start)))

HasLineBreak(text) == \E k \in DOMAIN text : text[k] = NL

\* C8 as claimed: after every completed run with COUNT >= 1 the data output,
\* decoded, is the sequence of lines the run appended below its heading.
C8_Original ==
    (pc = "done" /\ count >= 1) =>
        /\ FileLines(Appended(summary_sink, summary_start))[1] = Heading(count)
        /\ JsonLoads(DataOutput).ok
        /\ JsonLoads(DataOutput).value = SummaryLines

\* C8 (amended): the same, for the runs none of whose kept records has a line
\* break in its title or url.
C8_DataRoundTrip ==
    (pc = "done" /\ count >= 1
        /\ \A k \in DOMAIN sliced_list :
              ~HasLineBreak(sliced_list[k].title) /\ ~HasLineBreak(sliced_list[k].url)) =>
        /\ FileLines(Appended(summary_sink, summary_start))[1] = Heading(count)
        /\ JsonLoads(DataOutput).ok
        /\ JsonLoads(DataOutput).value = SummaryLines

\* two lines were published, one of them with a double quote in its title
C8_Witness ==
    /\ pc = "done"
    /\ Len(sliced_list) = 2
    /\ \E k \in DOMAIN sliced_list : \E m \in DOMAIN sliced_list[k].title :
          sliced_list[k].title[m] = QUOTE
    /\ \A k \in DOMAIN sliced_list : ~HasLineBreak(sliced_list[k].title)
    /\ Len(SummaryLines) = 2

----------------------------------------------------------------------------
\* how many lines of a text are the heading of a summary block of n records
HeadingLines(text, n) ==
    Cardinality({k \in DOMAIN FileLines(text) :
                    FileLines(text)[k] = <<"## There are ", ToString(n), " stale PRs">>})

\* C9: no step takes anything out of a sink or changes what it held: what a sink
\* held before a step, and before a run, is a prefix of what it holds after; and
\* when every run so far completed with COUNT >= 1 the summary sink holds one
\* summary block per run (two after the second run).
C9_SinksOnlyGrow ==
    /\ [][IsPrefix(output_sink, output_sink') /\ IsPrefix(summary_sink, summary_sink')]_vars
    /\ [](IsPrefix(output_start, output_sink) /\ IsPrefix(summary_start, summary_sink))
    /\ []((pc = "done" /\ count >= 1 /\ \A k \in DOMAIN exits : exits[k] = 0) =>
            HeadingLines(summary_sink, TotalRecords(outputs)) = Len(exits) + 1)

\* the second run on the same two records completed
C9_Witness ==
    /\ Len(exits) = 1
    /\ exits[1] = 0
    /\ pc = "done"
    /\ count = 2
    /\ summary_start # <<>>
    /\ HeadingLines(summary_sink, 2) = 2

----------------------------------------------------------------------------
CountLine == <<"COUNT", "=", ToString(count), NL>>

\* C10: nothing is appended before the inputs are read and ranked; then COUNT,
\* then the summary block, then MESSAGE, then data.  A run that fails reading or
\* ranking leaves both sinks as they were; a run that fails formatting a kept
\* record, or for want of GITHUB_STEP_SUMMARY, leaves the output sink with the
\* COUNT line added and the summary sink as it was.
C10_AppendOrder ==
    /\ (pc \in {"args", "read", "count"}
          \/ (pc = "failed" /\ raised_at \in {"args", "read", "count"})) =>
          output_sink = output_start /\ summary_sink = summary_start
    /\ (pc \in {"check", "format"} \/ (pc = "failed" /\ raised_at = "format")) =>
          output_sink = output_start \o CountLine /\ summary_sink = summary_start
    /\ (pc = "failed" /\ "GITHUB_OUTPUT" \in environ /\ "GITHUB_STEP_SUMMARY" \notin environ
          /\ raised_at \notin {"args", "read"}) =>
          output_sink = output_start \o CountLine /\ summary_sink = summary_start
    /\ pc = "message" =>
          /\ output_sink = output_start \o CountLine
          /\ Len(summary_sink) > Len(summary_start)
          /\ FileLines(Appended(summary_sink, summary_start))[1] = Heading(count)
    /\ pc = "data" =>
          /\ Len(summary_sink) > Len(summary_start)
          /\ LET more == Appended(output_sink, output_start \o CountLine)
             IN  /\ IsPrefix(output_start \o CountLine, output_sink)
                 /\ more # <<>>
                 /\ more[1] = "MESSAGE"
                 /\ \A k \in DOMAIN more : more[k] # "data"
    /\ (pc = "done" /\ count >= 1) =>
          /\ Len(summary_sink) > Len(summary_start)
          /\ LET more == Appended(output_sink, output_start \o CountLine)
                 last == FileLines(more)[Len(FileLines(more))]
             IN  /\ IsPrefix(output_start \o CountLine, output_sink)
                 /\ more[1] = "MESSAGE"
                 /\ last[1] = "data"
    /\ pc = "failed" => raised_at \in {"args", "read", "count", "format"}

\* GITHUB_STEP_SUMMARY is not set: the run failed with only COUNT appended
C10_Witness ==
    /\ pc = "failed"
    /\ raised_at = "format"
    /\ "GITHUB_STEP_SUMMARY" \notin environ
    /\ Len(formated_list) = 2
    /\ output_sink = output_start \o <<"COUNT", "=", "2", NL>>
    /\ summary_sink = summary_start

====
